---- MODULE Spec2Model ----
(***************************************************************************)
(* TennisSage analysis pipeline: the POST /api/predictions/analyze        *)
(* handler, AgentOrchestrator (in-flight marker, AgentStatus registry,     *)
(* task groups, synthesizer) and the task functions' error records.        *)
(* One action is one run of the event loop: a pending await settles and    *)
(* the continuation runs up to the next await.                             *)
(***************************************************************************)
EXTENDS Integers, Sequences, FiniteSets, TLC

\* ------------------------------------------------------------------ bounds

\* Requests issued over the two handler slots in one behaviour.
MaxRequests == 2

\* Longest factor list handed to the synthesizer in SynthSpec.
MaxFactors == 11

\* Every list of at most this length is handed to the synthesizer in SynthSpec.
MaxShortList == 3

\* ------------------------------------------------------- database (fixed)

\* Handler slots: two requests can be in progress at once. A request takes
\* the first free slot.
SlotOrder == << "r1", "r2" >>
Slots == { SlotOrder[i] : i \in 1..Len(SlotOrder) }

\* req.body.matchId: absent (""), unknown to the store, or a stored match.
NoMatchId == ""
MatchInputs == {NoMatchId, "m0", "m1", "m2", "m3"}

\* What getMatch answers with. The player2 row of m3 is gone by the time
\* analyzeMatch asks for it.
MatchTable ==
  [ m1 |-> [id |-> "m1", player1Id |-> "p1", player2Id |-> "p2"],
    m2 |-> [id |-> "m2", player1Id |-> "p1", player2Id |-> "p2"],
    m3 |-> [id |-> "m3", player1Id |-> "p1", player2Id |-> "p9"] ]

PlayerTable == {"p1", "p2"}

\* The outcome of one storage call: it answers or it rejects.
StorageOutcomes == {"ok", "error"}

\* A predictions row; winProbability, confidenceLevel in thousandths. req,
\* forced: the request that inserted it (0: none of this process) and its
\* forceRefresh; not columns of the table.
PredictionRow(matchId, winnerId, prob, conf, nFactors, req, forced) ==
  [ matchId |-> matchId, predictedWinnerId |-> winnerId, winProbability |-> prob,
    confidenceLevel |-> conf, factors |-> nFactors, req |-> req, forced |-> forced ]

\* A decimal(5, 2) column keeps two decimals: the value is rounded on insert.
Numeric52(thousandths) == ((thousandths + 5) \div 10) * 10

\* createPrediction: insert ... returning; the table after it and the new row.
createPrediction(table, row) ==
  LET newPrediction == [row EXCEPT !.winProbability = Numeric52(@),
                                   !.confidenceLevel = Numeric52(@)]
  IN  [table |-> Append(table, newPrediction), row |-> newPrediction]

\* The rows getPredictionByMatch can answer with: the select has no ORDER
\* BY, the first row of the answer is taken.
PredictionsOf(preds, matchId) ==
  { i \in 1..Len(preds) : preds[i].matchId = matchId }

\* predictions table at start: one row, for m2, stored before this process.
SeedPredictions == << PredictionRow("m2", "p1", 600, 750, 0, 0, FALSE) >>

Range(q) == { q[i] : i \in 1..Len(q) }

\* ------------------------------------------------------- agent registry

AgentDefinitions ==
  << "Recent Matches Analyst", "Momentum Analyst", "Clutch Performance Analyst",
     "Surface Suitability Analyst", "Environment Analyst",
     "Service Performance Analyst", "Return Performance Analyst",
     "Rally & Point Construction Analyst", "Pressure Statistics Analyst",
     "Statistical Trend Analyst",
     "Workload & Recovery Analyst", "Injury Status Analyst",
     "Endurance Inference Analyst",
     "Playing Style Profiler", "Head-to-Head Analyst", "Tactical Battle Synthesizer",
     "News Monitor", "Data Gaps & Uncertainty Reporter" >>

AgentNames == { AgentDefinitions[i] : i \in 1..Len(AgentDefinitions) }

initializeAgents == [ n \in AgentNames |-> [status |-> "idle", totalAnalyses |-> 0] ]

\* The awaits of runAgentAnalyses in order: four Promise.all groups, the
\* three match-up tasks one by one, the contextual Promise.all.
StagesMatchupTogether ==
  << << "Recent Matches Analyst", "Momentum Analyst", "Clutch Performance Analyst" >>,
     << "Surface Suitability Analyst", "Environment Analyst" >>,
     << "Service Performance Analyst", "Return Performance Analyst",
        "Rally & Point Construction Analyst", "Pressure Statistics Analyst",
        "Statistical Trend Analyst" >>,
     << "Workload & Recovery Analyst", "Recent Match Physical Toll Analyst",
        "Injury Status Analyst", "Endurance Inference Analyst" >>,
     << "Playing Style Profiler", "Head-to-Head Analyst", "Tactical Battle Synthesizer" >>,
     << "News Monitor", "Data Gaps & Uncertainty Reporter" >> >>

Stages ==
  << << "Recent Matches Analyst", "Momentum Analyst", "Clutch Performance Analyst" >>,
     << "Surface Suitability Analyst", "Environment Analyst" >>,
     << "Service Performance Analyst", "Return Performance Analyst",
        "Rally & Point Construction Analyst", "Pressure Statistics Analyst",
        "Statistical Trend Analyst" >>,
     << "Workload & Recovery Analyst", "Recent Match Physical Toll Analyst",
        "Injury Status Analyst", "Endurance Inference Analyst" >>,
     << "Playing Style Profiler" >>,
     << "Head-to-Head Analyst" >>,
     << "Tactical Battle Synthesizer" >>,
     << "News Monitor", "Data Gaps & Uncertainty Reporter" >> >>

NumStages == Len(Stages)

TaskNames == UNION { { Stages[k][i] : i \in 1..Len(Stages[k]) } : k \in 1..NumStages }

\* The method each task's arrow function calls.
TaskCall(t) ==
  CASE t = "Recent Matches Analyst" -> "recentPerformanceAgents.analyzeRecentMatches"
    [] t = "Momentum Analyst" -> "recentPerformanceAgents.analyzeMomentum"
    [] t = "Clutch Performance Analyst" -> "recentPerformanceAgents.analyzeClutchPerformance"
    [] t = "Surface Suitability Analyst" -> "surfaceEnvironmentAgents.analyzeSurfaceSuitability"
    [] t = "Environment Analyst" -> "surfaceEnvironmentAgents.analyzeEnvironment"
    [] t = "Service Performance Analyst" -> "statisticalAgents.analyzeServePerformance"
    [] t = "Return Performance Analyst" -> "statisticalAgents.analyzeReturnPerformance"
    [] t = "Rally & Point Construction Analyst" -> "statisticalAgents.analyzeRallyPatterns"
    [] t = "Pressure Statistics Analyst" -> "statisticalAgents.analyzePressurePerformance"
    [] t = "Statistical Trend Analyst" -> "statisticalAgents.analyzeStatisticalTrends"
    [] t = "Workload & Recovery Analyst" -> "physicalConditionAgents.analyzeScheduleBurden"
    [] t = "Recent Match Physical Toll Analyst" -> "physicalConditionAgents.analyzeRecentMatchToll"
    [] t = "Injury Status Analyst" -> "physicalConditionAgents.analyzeInjuryFitnessStatus"
    [] t = "Endurance Inference Analyst" -> "physicalConditionAgents.analyzeAgeEndurance"
    [] t = "Playing Style Profiler" -> "matchupAgents.analyzePlayingStyles"
    [] t = "Head-to-Head Analyst" -> "matchupAgents.analyzeHeadToHead"
    [] t = "Tactical Battle Synthesizer" -> "matchupAgents.analyzeTacticalBattle"
    [] t = "News Monitor" -> "contextualAgents.analyzeNews"
    [] OTHER -> "contextualAgents.analyzeDataGaps"

\* The public methods the agent classes define.
AgentMethods ==
  { "recentPerformanceAgents.analyzeRecentMatches",
    "recentPerformanceAgents.analyzeMomentum",
    "recentPerformanceAgents.analyzeClutchPerformance",
    "surfaceEnvironmentAgents.analyzeSurfaceSuitability",
    "surfaceEnvironmentAgents.analyzeEnvironment",
    "statisticalAgents.analyzeServePerformance",
    "statisticalAgents.analyzeReturnPerformance",
    "statisticalAgents.analyzeRallyPatterns",
    "statisticalAgents.analyzePressurePerformance",
    "statisticalAgents.analyzeStatisticalTrends",
    "physicalConditionAgents.analyzeScheduleBurden",
    "physicalConditionAgents.analyzeRecentMatchToll",
    "physicalConditionAgents.analyzeInjuryFitnessStatus",
    "physicalConditionAgents.analyzeAgeEndurance",
    "matchupAgents.analyzePlayingStyles",
    "matchupAgents.analyzeHeadToHead",
    "matchupAgents.analyzeTacticalBattle",
    "contextualAgents.analyzeNewsAndContext",
    "contextualAgents.reportDataGapsAndLimitations" }

\* Calling a method the object does not have throws a TypeError in the
\* caller; the methods that exist catch everything they do.
TaskThrowsEarly(t) == t = "Momentum Analyst" \/ TaskCall(t) \notin AgentMethods

TaskThrows(t) == TaskCall(t) \notin AgentMethods

\* ------------------------------------------------------------- variables

VARIABLES
  agents,           \* AgentOrchestrator.agents: name -> [status, totalAnalyses]
  currentAnalysis,  \* AgentOrchestrator.currentAnalysis: the match ids marked
  predictions,      \* predictions table, in insertion order
  agentRows,        \* agent_analysis table, in insertion order
  pc,               \* per slot: the await the handler is suspended at
  call,             \* per slot: the request [id, matchId, forceRefresh]
  stage,            \* per slot: index in Stages of the awaited stage
  pending,          \* per slot: task functions started and not settled
  results,          \* per slot: tasks whose record runAgentAnalyses holds
  run,              \* per slot: the analyzeMatch call of the request
  response,         \* per slot: the HTTP response sent
  trace,            \* per slot: what the request did, in order
  reqCount,         \* requests issued so far
  statusLog,        \* the updateAgentStatus calls of the last step, in order
  fn,               \* a function under test: its input and its result
  clients,          \* the clients Map of the WebSocket server: clientId -> connection
  sockets,          \* per connection: the closure of its "connection" callback
  broadcasts,       \* the broadcastToSubscribers calls made, in order
  hook              \* the useWebSocket hook of one browser component

wsVars == << clients, sockets, broadcasts >>

routeVars == << agents, currentAnalysis, predictions, agentRows, pc, call, stage,
                pending, results, run, response, trace, reqCount, statusLog >>

vars == << agents, currentAnalysis, predictions, agentRows, pc, call, stage,
           pending, results, run, response, trace, reqCount, statusLog, fn,
           clients, sockets, broadcasts, hook >>

serverVars == << agents, currentAnalysis, predictions, agentRows, pc, call, stage,
                 pending, results, run, response, trace, reqCount, statusLog,
                 clients, sockets, broadcasts, hook >>

NoRow == PredictionRow("", "", 0, 0, 0, 0, FALSE)
NoResponse == [status |-> 0, error |-> "", prediction |-> NoRow]

\* state: none, rejected (by the guard), running (between guard and finally),
\* returned, failed. prediction/toStore: locals of analyzeMatch. started: the
\* task functions the run invoked, in order. The other
\* fields record what the call did; the code does not read them.
NoRun == [state |-> "none", error |-> "", threw |-> FALSE, guardSaw |-> FALSE,
          synthCalls |-> 0, statusUpdates |-> 0, rows |-> 0, started |-> << >>,
          prediction |-> [threw |-> TRUE], toStore |-> << >>]
NoCall == [id |-> 0, matchId |-> NoMatchId, forceRefresh |-> FALSE]
NoFn == [kind |-> "none"]

\* ------------------------------------------------------ AgentStatus registry

updateAgentStatus(ag, agentName, status) ==
  IF agentName \in DOMAIN ag
    THEN [ag EXCEPT ![agentName] =
            [status |-> status,
             totalAnalyses |-> IF status = "processing"
                                 THEN @.totalAnalyses + 1 ELSE @.totalAnalyses]]
    ELSE ag

\* What one updateAgentStatus call did to a registered entry.
StatusChange(ag, agentName, status) ==
  IF agentName \in DOMAIN ag
    THEN << [agent |-> agentName, from |-> ag[agentName].status, to |-> status] >>
    ELSE << >>

\* ----------------------------------------------------------- runAgentAnalysis

\* The synchronous part of runAgentAnalysis(agentName, analysisFunction) on
\* m = [agents, log, pending, rejected, invoked]: mark processing, call the
\* function; a call that throws is caught at once: mark error, the promise
\* rejects. invoked: the task functions called, in order.
runAgentAnalysisRetry(m, t) ==
  LET a1 == updateAgentStatus(m.agents, t, "processing")
      l1 == m.log \o StatusChange(m.agents, t, "processing")
      a2 == updateAgentStatus(a1, t, "error")
      l2 == l1 \o StatusChange(a1, t, "error")
      a3 == updateAgentStatus(a2, t, "processing")
      l3 == l2 \o StatusChange(a2, t, "processing")
  IN  IF TaskThrows(t)
        THEN [agents |-> updateAgentStatus(a3, t, "error"),
              log |-> l3 \o StatusChange(a3, t, "error"),
              pending |-> m.pending, rejected |-> TRUE,
              invoked |-> m.invoked \o << t, t >>]
        ELSE [agents |-> a1, log |-> l1,
              pending |-> m.pending \cup {t}, rejected |-> m.rejected,
              invoked |-> Append(m.invoked, t)]

runAgentAnalysisSwallow(m, t) ==
  LET a1 == updateAgentStatus(m.agents, t, "processing")
      l1 == m.log \o StatusChange(m.agents, t, "processing")
  IN  IF TaskThrows(t)
        THEN [agents |-> updateAgentStatus(a1, t, "error"),
              log |-> l1 \o StatusChange(a1, t, "error"),
              pending |-> m.pending, rejected |-> m.rejected,
              invoked |-> Append(m.invoked, t)]
        ELSE [agents |-> a1, log |-> l1,
              pending |-> m.pending \cup {t}, rejected |-> m.rejected,
              invoked |-> Append(m.invoked, t)]

runAgentAnalysis(m, t) ==
  LET a1 == updateAgentStatus(m.agents, t, "processing")
      l1 == m.log \o StatusChange(m.agents, t, "processing")
  IN  IF TaskThrows(t)
        THEN [agents |-> updateAgentStatus(a1, t, "error"),
              log |-> l1 \o StatusChange(a1, t, "error"),
              pending |-> m.pending, rejected |-> TRUE,
              invoked |-> Append(m.invoked, t)]
        ELSE [agents |-> a1, log |-> l1,
              pending |-> m.pending \cup {t}, rejected |-> m.rejected,
              invoked |-> Append(m.invoked, t)]

\* The promises of one stage are created left to right before the await.
RECURSIVE StartStage(_, _)
StartStage(m, tasks) ==
  IF tasks = << >> THEN m
  ELSE StartStage(runAgentAnalysis(m, Head(tasks)), Tail(tasks))

\* The continuation of runAgentAnalysis when the task's promise resolves.
runAgentAnalysisResolvedIdle(ag, t) == updateAgentStatus(ag, t, "idle")

runAgentAnalysisResolved(ag, t) == updateAgentStatus(ag, t, "active")

\* ---------------------------------------------------------- task functions

\* Longest reply of the completion client, in marker-sized pieces.
MaxReplyTokens == 2

Advantages == {"player1", "player2", "none", "slight_player1", "slight_player2"}

\* Pieces a reply text is made of: the markers the system prompt asks for,
\* variants of them, and text without a marker. form/digit/cased say what the
\* regular expressions see: which alternative, the captured digit, and
\* whether the letters are in the pattern's case.
Tokens ==
  { [text |-> "**Advantage Player 1**", form |-> "adv", digit |-> "1", cased |-> TRUE],
    [text |-> "**Advantage Player 2**", form |-> "adv", digit |-> "2", cased |-> TRUE],
    [text |-> "**Advantage Player 3**", form |-> "adv", digit |-> "3", cased |-> TRUE],
    [text |-> "**Slight Advantage Player 1**", form |-> "slight", digit |-> "1", cased |-> TRUE],
    [text |-> "**Slight Advantage Player 2**", form |-> "slight", digit |-> "2", cased |-> TRUE],
    [text |-> "**No Clear Advantage**", form |-> "noclear", digit |-> "", cased |-> TRUE],
    [text |-> "**no clear advantage**", form |-> "noclear", digit |-> "", cased |-> FALSE],
    [text |-> "**No Significant", form |-> "nosig", digit |-> "", cased |-> TRUE],
    [text |-> "Both players are evenly matched.", form |-> "plain", digit |-> "", cased |-> TRUE] }

RECURSIVE SeqsUpTo(_, _)
SeqsUpTo(S, n) ==
  IF n = 0 THEN { << >> }
  ELSE LET shorter == SeqsUpTo(S, n - 1)
       IN  shorter \cup { Append(q, x) : q \in { r \in shorter : Len(r) = n - 1 }, x \in S }

Replies == SeqsUpTo(Tokens, MaxReplyTokens) \ { << >> }

\* The alternatives of each class's regular expression (flag i).
RegexForms(variant) ==
  CASE variant = "slight" -> {"adv", "slight", "noclear"}
    [] variant = "plain" -> {"adv", "noclear"}
    [] OTHER -> {"adv", "noclear", "nosig"}

\* String.match without flag g: the leftmost match, or none (<< >>).
RECURSIVE FirstMatch(_, _)
FirstMatch(variant, reply) ==
  IF reply = << >> THEN << >>
  ELSE IF Head(reply).form \in RegexForms(variant) THEN << Head(reply) >>
  ELSE FirstMatch(variant, Tail(reply))

PlayerTag(digit) ==
  CASE digit = "1" -> "player1"
    [] digit = "2" -> "player2"
    [] digit = "3" -> "player3"
    [] OTHER -> "playerundefined"

\* extractAdvantage(analysis).player of StatisticalAgents,
\* PhysicalConditionAgents, MatchupAgents ("slight") and of
\* SurfaceEnvironmentAgents ("plain").
extractAdvantage(variant, reply) ==
  LET m == FirstMatch(variant, reply)
  IN  IF m = << >> THEN "none"
      ELSE IF m[1].form = "noclear" /\ m[1].cased THEN "none"
      ELSE PlayerTag(m[1].digit)

TaskKind(t) ==
  CASE t \in {"Recent Matches Analyst", "Momentum Analyst", "Clutch Performance Analyst"}
         -> "stats"
    [] t \in {"Surface Suitability Analyst", "Environment Analyst"} -> "plain"
    [] OTHER -> "slight"

\* What a task function's own work can come to: it fails (storage or the
\* completion client rejects), or it delivers the reply text, or for the
\* recent-performance tasks the advantage computed from the match rows, with
\* the confidence the task's formula gives (thousandths).
SuccessConfidences == {0, 500, 900}

WorkOutcomes(t) ==
  { [kind |-> "fail"] } \cup
  ( IF TaskKind(t) = "stats"
      THEN { [kind |-> "stats", advantage |-> a, confidence |-> c] :
               a \in Advantages, c \in SuccessConfidences \ {0} }
      ELSE { [kind |-> "reply", reply |-> r, confidence |-> c] :
               r \in Replies, c \in SuccessConfidences } )

\* The record of each task function's catch block.
ErrorConclusion(t) ==
  CASE t \in {"Recent Matches Analyst", "Momentum Analyst", "Clutch Performance Analyst"}
         -> "Analysis Error - Insufficient Data"
    [] t = "Injury Status Analyst" -> "No Known Issues"
    [] t = "Environment Analyst" -> "No Clear Advantage"
    [] t = "Head-to-Head Analyst" -> "No Previous Meetings"
    [] OTHER -> "Analysis Error"

ErrorConfidence(t) ==
  IF t \in {"Injury Status Analyst", "Environment Analyst"} THEN 500 ELSE 0

ErrorRecord(t) ==
  [ threw |-> FALSE, task |-> t, conclusion |-> ErrorConclusion(t),
    advantage |-> "none", confidence |-> ErrorConfidence(t) ]

SuccessRecord(t, work) ==
  LET adv == IF work.kind = "stats" THEN work.advantage
             ELSE extractAdvantage(TaskKind(t), work.reply)
  IN  [ threw |-> FALSE, task |-> t,
        conclusion |-> IF adv = "none" THEN "No Clear Advantage" ELSE "Advantage",
        advantage |-> adv, confidence |-> work.confidence ]

Thrown(t) == [ threw |-> TRUE, task |-> t ]

\* One invocation of the arrow function the orchestrator hands to
\* runAgentAnalysis for task t.
TaskFunction(t, work) ==
  IF TaskThrows(t) THEN Thrown(t)
  ELSE IF work.kind = "fail" THEN ErrorRecord(t)
  ELSE SuccessRecord(t, work)

\* --------------------------------------------------------------- synthesizer

\* The methods class OpenAIService defines.
OpenAIMethods ==
  { "analyzeWithGPT4", "analyzeFactorWithSpecializedPrompt",
    "synthesizeFinalPrediction", "extractInsightsFromNews", "extractBulletPoints" }

\* What `await openAIService.generatePrediction(synthesisPrompt)` comes to:
\* a TypeError when the service has no such method; otherwise the call
\* rejects or answers with the parsed JSON (numbers in thousandths).
GeneratePredictionOutcomes ==
  IF "generatePrediction" \in OpenAIMethods
    THEN { [kind |-> "error"] } \cup
         { [kind |-> "ok", predictedWinner |-> w, winProbability |-> 700,
            confidenceLevel |-> 800] : w \in {"player1", "player2", "Undetermined"} }
    ELSE { [kind |-> "TypeError"] }

\* `x || d` on a number: 0 is falsy.
OrDefault(x, d) == IF x = 0 THEN d ELSE x

\* The factorAnalyses list compiled from the groups' results, in order:
\* undefined entries and entries without conclusion are skipped.
RECURSIVE CompileFactors(_)
CompileFactors(analysisResults) ==
  IF analysisResults = << >> THEN << >>
  ELSE LET r == Head(analysisResults)
           rest == CompileFactors(Tail(analysisResults))
       IN  IF r.threw \/ r.conclusion = "" THEN rest
           ELSE << [ task |-> r.task, conclusion |-> r.conclusion,
                     advantage |-> r.advantage,
                     confidence |-> OrDefault(r.confidence, 500) ] >> \o rest

CountAdvantageNoSlight(factorAnalyses, tags) ==
  Cardinality({ i \in 1..Len(factorAnalyses) :
                  factorAnalyses[i].advantage \in tags \cap {"player1", "player2"} })

CountAdvantage(factorAnalyses, tags) ==
  Cardinality({ i \in 1..Len(factorAnalyses) : factorAnalyses[i].advantage \in tags })

Abs(n) == IF n < 0 THEN -n ELSE n
Max(a, b) == IF a > b THEN a ELSE b
Min(a, b) == IF a < b THEN a ELSE b

FallbackReasoning == "Prediction made using fallback majority vote system."

\* The catch block of synthesizePrediction: majority vote. 0.5 + 0.05 * n in
\* thousandths.
FallbackPredictionNoClamp(player1Id, player2Id, factorAnalyses) ==
  LET player1Advantages == CountAdvantage(factorAnalyses, {"player1", "slight_player1"})
      player2Advantages == CountAdvantage(factorAnalyses, {"player2", "slight_player2"})
  IN  [ threw |-> FALSE,
        predictedWinnerId |-> IF player1Advantages > player2Advantages
                                THEN player1Id ELSE player2Id,
        winProbability |-> 500 + Abs(player1Advantages - player2Advantages) * 50,
        confidenceLevel |-> 750,
        factorAnalysis |-> factorAnalyses,
        reasoning |-> FallbackReasoning ]

FallbackPredictionNoTie(player1Id, player2Id, factorAnalyses) ==
  LET player1Advantages == CountAdvantage(factorAnalyses, {"player1", "slight_player1"})
      player2Advantages == CountAdvantage(factorAnalyses, {"player2", "slight_player2"})
  IN  [ threw |-> FALSE,
        predictedWinnerId |-> IF player1Advantages > player2Advantages THEN player1Id
                              ELSE IF player2Advantages > player1Advantages THEN player2Id
                              ELSE "undefined",
        winProbability |->
          Max(500, Min(900, 500 + Abs(player1Advantages - player2Advantages) * 50)),
        confidenceLevel |-> 750,
        factorAnalysis |-> factorAnalyses,
        reasoning |-> FallbackReasoning ]

FallbackPrediction(player1Id, player2Id, factorAnalyses) ==
  LET player1Advantages == CountAdvantage(factorAnalyses, {"player1", "slight_player1"})
      player2Advantages == CountAdvantage(factorAnalyses, {"player2", "slight_player2"})
  IN  [ threw |-> FALSE,
        predictedWinnerId |-> IF player1Advantages > player2Advantages
                                THEN player1Id ELSE player2Id,
        winProbability |->
          Max(500, Min(900, 500 + Abs(player1Advantages - player2Advantages) * 50)),
        confidenceLevel |-> 750,
        factorAnalysis |-> factorAnalyses,
        reasoning |-> FallbackReasoning ]

synthesizePredictionRethrow(player1Id, player2Id, analysisResults, ai) ==
  IF ai.kind = "ok"
    THEN [ threw |-> FALSE,
           predictedWinnerId |-> IF ai.predictedWinner = "player1"
                                   THEN player1Id ELSE player2Id,
           winProbability |-> ai.winProbability,
           confidenceLevel |-> ai.confidenceLevel,
           factorAnalysis |-> CompileFactors(analysisResults),
           reasoning |-> "aiResponse.reasoning" ]
    ELSE [ threw |-> TRUE ]

synthesizePrediction(player1Id, player2Id, analysisResults, ai) ==
  LET factorAnalyses == CompileFactors(analysisResults)
  IN  IF ai.kind = "ok"
        THEN [ threw |-> FALSE,
               predictedWinnerId |-> IF ai.predictedWinner = "player1"
                                       THEN player1Id ELSE player2Id,
               winProbability |-> ai.winProbability,
               confidenceLevel |-> ai.confidenceLevel,
               factorAnalysis |-> factorAnalyses,
               reasoning |-> "aiResponse.reasoning" ]
        ELSE FallbackPrediction(player1Id, player2Id, factorAnalyses)

\* ------------------------------------------------- handler continuations
\* A continuation is an operator on x: the shared state and the slot's own
\* state as one record; an action commits the record a continuation returns.

Cur(c) ==
  [ agents |-> agents, currentAnalysis |-> currentAnalysis,
    predictions |-> predictions, agentRows |-> agentRows, log |-> << >>,
    pc |-> pc[c], stage |-> stage[c], pending |-> pending[c],
    results |-> results[c], run |-> run[c], response |-> response[c],
    trace |-> trace[c] ]

Commit(c, x) ==
  /\ agents' = x.agents
  /\ currentAnalysis' = x.currentAnalysis
  /\ predictions' = x.predictions
  /\ agentRows' = x.agentRows
  /\ statusLog' = x.log
  /\ pc' = [pc EXCEPT ![c] = x.pc]
  /\ stage' = [stage EXCEPT ![c] = x.stage]
  /\ pending' = [pending EXCEPT ![c] = x.pending]
  /\ results' = [results EXCEPT ![c] = x.results]
  /\ run' = [run EXCEPT ![c] = x.run]
  /\ response' = [response EXCEPT ![c] = x.response]
  /\ trace' = [trace EXCEPT ![c] = x.trace]

Did(x, what) == [x EXCEPT !.trace = Append(@, what)]

\* res.json / res.status(n).json: the handler is over.
Respond(x, status, error, row) ==
  Did([x EXCEPT !.response = [status |-> status, error |-> error, prediction |-> row],
                !.pc = "done"],
      "response")

\* The catch block of the analyze route.
RouteCatchLeak(x) == Respond(x, 500, x.run.error, NoRow)

RouteCatch(x) == Respond(x, 500, "Failed to analyze match", NoRow)

broadcastToSubscribers(x, channel) == Did(x, channel)

\* `finally` of analyzeMatch.
analyzeMatchFinallyKeep(x, matchId) == x

analyzeMatchFinally(x, matchId) ==
  [x EXCEPT !.currentAnalysis = @ \ {matchId}]

\* analyzeMatch throws inside its try block: finally, then the route's catch.
FailRun(x, matchId, error) ==
  RouteCatch(analyzeMatchFinally(
    Did([x EXCEPT !.run.state = "failed", !.run.error = error], "run:throw"),
    matchId))

\* The guard of analyzeMatch.
analyzeMatchGuardOff(cur, matchId) == FALSE

analyzeMatchGuard(cur, matchId) == matchId \in cur

\* storeAgentAnalyses: one createAgentAnalysis per record that has an
\* agentName; the rows it is about to insert.
AnalysisRows(matchId, records) ==
  LET kept == SelectSeq(records, LAMBDA r : ~r.threw)
  IN  [ i \in 1..Len(kept) |->
          [ matchId |-> matchId, agentName |-> kept[i].task,
            advantage |-> kept[i].advantage,
            confidenceLevel |-> kept[i].confidence ] ]

\* A reply with which every task's own work succeeds.
SampleWork(t) ==
  IF TaskKind(t) = "stats"
    THEN [kind |-> "stats", advantage |-> "slight_player1", confidence |-> 900]
    ELSE [kind |-> "reply",
          reply |-> << CHOOSE k \in Tokens : k.text = "**Advantage Player 1**" >>,
          confidence |-> 900]

\* The records behind results: the completion client and the store are up
\* for the whole run, or down.
RunRecords(res, up) ==
  [ i \in 1..Len(res) |->
      IF res[i] = "undefined" THEN Thrown("undefined")
      ELSE TaskFunction(res[i], IF up THEN SampleWork(res[i]) ELSE [kind |-> "fail"]) ]

\* analyzeMatch after runAgentAnalyses returned: synthesizePrediction, then
\* storeAgentAnalyses up to its await.
SynthesizeAndStore(x, match, up, ai) ==
  LET records == RunRecords(x.results, up)
      prediction == synthesizePrediction(match.player1Id, match.player2Id, records, ai)
      x1 == Did([x EXCEPT !.run.synthCalls = @ + 1], "synthesizePrediction")
  IN  IF prediction.threw THEN FailRun(x1, match.id, "synthesis")
      ELSE Did([x1 EXCEPT !.run.prediction = prediction,
                          !.run.toStore = AnalysisRows(match.id, records),
                          !.pc = "storeAnalyses"],
               "storeAgentAnalyses")

\* runAgentAnalyses from stage k on, up to the next await that suspends.
RECURSIVE runAgentAnalyses(_, _, _, _, _)
runAgentAnalyses(x, match, k, up, ai) ==
  IF k > NumStages THEN SynthesizeAndStore(x, match, up, ai)
  ELSE
    LET m == StartStage([agents |-> x.agents, log |-> x.log, pending |-> x.pending,
                         rejected |-> FALSE, invoked |-> << >>], Stages[k])
        tasks == Stages[k]
        x1 == [x EXCEPT !.agents = m.agents, !.log = m.log,
                        !.pending = m.pending, !.stage = k, !.pc = "tasks",
                        !.run.statusUpdates = @ + Len(m.log) - Len(x.log),
                        !.run.started = @ \o m.invoked,
                        !.run.threw = @ \/ \E i \in 1..Len(tasks) : TaskThrows(tasks[i])]
    IN  IF m.rejected THEN FailRun(x1, match.id, "task")
        ELSE IF m.pending = {}
          THEN runAgentAnalyses(
                 [x1 EXCEPT !.results = @ \o [i \in 1..Len(tasks) |-> "undefined"]],
                 match, k + 1, up, ai)
        ELSE x1

ParticipantsResolvable(match) ==
  match.player1Id \in PlayerTable /\ match.player2Id \in PlayerTable

\* analyzeMatch from the answer of the two getPlayer calls on.
PlayersCheckedLate(x, match, up, ai) ==
  LET x1 == runAgentAnalyses(x, match, 1, up, ai)
  IN  IF ParticipantsResolvable(match) \/ x1.pc = "done" THEN x1
      ELSE FailRun(x1, match.id, "Player data not found")

PlayersAnswered(x, match, up, ai) ==
  IF ~ParticipantsResolvable(match)
    THEN FailRun(x, match.id, "Player data not found")
    ELSE runAgentAnalyses(x, match, 1, up, ai)

\* The route from the answer of getMatch on: broadcast, then analyzeMatch up
\* to its first await. inFlight: whether another call for the same match is
\* between its guard and its finally (recorded, not read by the code).
MatchAnsweredGuardInTry(x, matchId, inFlight) ==
  IF matchId \notin DOMAIN MatchTable
    THEN Respond(x, 404, "Match not found", NoRow)
  ELSE
    LET x1 == broadcastToSubscribers(x, "analysis:started")
        x2 == [x1 EXCEPT !.run.guardSaw = inFlight]
    IN  IF analyzeMatchGuard(x.currentAnalysis, matchId)
          THEN RouteCatch(analyzeMatchFinally(
                 [x2 EXCEPT !.run.state = "rejected",
                            !.run.error = "Match analysis already in progress"],
                 matchId))
          ELSE Did([x2 EXCEPT !.currentAnalysis = @ \cup {matchId},
                              !.run.state = "running", !.pc = "getPlayers"],
                   "run:begin")

MatchAnswered(x, matchId, inFlight) ==
  IF matchId \notin DOMAIN MatchTable
    THEN Respond(x, 404, "Match not found", NoRow)
  ELSE
    LET x1 == broadcastToSubscribers(x, "analysis:started")
        x2 == [x1 EXCEPT !.run.guardSaw = inFlight]
    IN  IF analyzeMatchGuard(x.currentAnalysis, matchId)
          THEN RouteCatch([x2 EXCEPT !.run.state = "rejected",
                                     !.run.error = "Match analysis already in progress"])
          ELSE Did([x2 EXCEPT !.currentAnalysis = @ \cup {matchId},
                              !.run.state = "running", !.pc = "getPlayers"],
                   "run:begin")

PredictionAnsweredIgnore(x, matchId, i) == [x EXCEPT !.pc = "getMatch"]

PredictionAnsweredAnnounce(x, matchId, i) ==
  IF i = 0 THEN [x EXCEPT !.pc = "getMatch"]
  ELSE Respond(broadcastToSubscribers(x, "analysis:completed"), 200, "",
               x.predictions[i])

PredictionAnswered(x, matchId, i) ==
  IF i = 0 THEN [x EXCEPT !.pc = "getMatch"]
  ELSE Respond(x, 200, "", x.predictions[i])

\* analyzeMatch after storeAgentAnalyses: return (finally), and the route
\* up to the await of createPrediction.
AnalysesStored(x, matchId) ==
  LET x1 == [x EXCEPT !.agentRows = @ \o x.run.toStore,
                      !.run.rows = @ + Len(x.run.toStore)]
      x2 == analyzeMatchFinally(
              Did([x1 EXCEPT !.run.state = "returned"], "run:return"), matchId)
  IN  [x2 EXCEPT !.pc = "createPrediction"]

\* storeAgentAnalyses rejects: some inserts may have been done.
AnalysesStoreFailed(x, matchId, n) ==
  FailRun([x EXCEPT !.agentRows = @ \o SubSeq(x.run.toStore, 1, n),
                    !.run.rows = @ + n], matchId, "storage")

\* The route after createPrediction answered.
PredictionCreated(x, matchId, req) ==
  LET p == x.run.prediction
      row == PredictionRow(matchId, p.predictedWinnerId, p.winProbability,
                           p.confidenceLevel, Len(p.factorAnalysis),
                           req.id, req.forceRefresh)
      made == createPrediction(x.predictions, row)
      x1 == Did([x EXCEPT !.predictions = made.table], "createPrediction")
  IN  Respond(broadcastToSubscribers(x1, "analysis:completed"), 200, "", made.row)

\* The continuation of runAgentAnalysis when task t resolves, and what
\* follows in the same turn when t was the last of its stage.
TaskResolvedRace(x, match, t, up, ai) ==
  LET a1 == runAgentAnalysisResolved(x.agents, t)
      l1 == x.log \o StatusChange(x.agents, t, "active")
      x1 == [x EXCEPT !.agents = a1, !.log = l1, !.pending = @ \ {t},
                      !.run.statusUpdates = @ + Len(l1) - Len(x.log)]
  IN  IF x.pc = "tasks" /\ t \in Range(Stages[x.stage])
        THEN runAgentAnalyses([x1 EXCEPT !.results = @ \o Stages[x.stage]],
                              match, x.stage + 1, up, ai)
        ELSE x1

TaskResolved(x, match, t, up, ai) ==
  LET a1 == runAgentAnalysisResolved(x.agents, t)
      l1 == x.log \o StatusChange(x.agents, t, "active")
      x1 == [x EXCEPT !.agents = a1, !.log = l1, !.pending = @ \ {t},
                      !.run.statusUpdates = @ + Len(l1) - Len(x.log)]
  IN  IF x.pc = "tasks" /\ x1.pending = {}
        THEN runAgentAnalyses([x1 EXCEPT !.results = @ \o Stages[x.stage]],
                              match, x.stage + 1, up, ai)
        ELSE x1

\* ------------------------------------------------------- WebSocket server

\* Connections the server accepts, and broadcasts made.
MaxConnections == 2
MaxBroadcasts == 2

Connections == 1..MaxConnections

\* Math.random().toString(36).substring(7): two connections can draw the
\* same id.
ClientIds == {"a", "b"}

Channels == {"agents:status", "analysis:completed"}

\* readyState NONE: the connection was not made yet. CLOSING: the socket is
\* no longer OPEN and its "close" event was not emitted yet. inbox: the
\* broadcasts sent on the socket, by number. errored records that the
\* "error" handler ran; the code does not read it.
NoSocket == [readyState |-> "NONE", clientId |-> "",
             subscriptions |-> {}, inbox |-> << >>, errored |-> FALSE]

\* The WebSocketClient the "connection" callback builds.
NewClientResubscribed(socks, clientId) ==
  [NoSocket EXCEPT !.readyState = "OPEN", !.clientId = clientId,
                   !.subscriptions = UNION { socks[k].subscriptions : k \in DOMAIN socks }]

NewClient(socks, clientId) ==
  [NoSocket EXCEPT !.readyState = "OPEN", !.clientId = clientId]

\* clients.set(clientId, client) / clients.delete(clientId)
MapSet(map, key, value) ==
  [ id \in DOMAIN map \cup {key} |-> IF id = key THEN value ELSE map[id] ]

MapValues(map) == { map[id] : id \in DOMAIN map }

MapDelete(map, key) == [ id \in DOMAIN map \ {key} |-> map[id] ]

\* The connections broadcastToSubscribers sends to.
RecipientsAnyState(map, socks, channel) ==
  { k \in MapValues(map) : channel \in socks[k].subscriptions }

Recipients(map, socks, channel) ==
  { k \in MapValues(map) : /\ channel \in socks[k].subscriptions
                       /\ socks[k].readyState = "OPEN" }

\* wss.on("connection"): a page connects, for the first time or again.
Connection(k, clientId) ==
  /\ sockets[k].readyState = "NONE"
  /\ \A j \in Connections : j < k => sockets[j].readyState # "NONE"
  /\ sockets' = [sockets EXCEPT ![k] = NewClient(sockets, clientId)]
  /\ clients' = MapSet(clients, clientId, k)
  /\ UNCHANGED << broadcasts, routeVars, fn, hook >>

\* ws.on("message"): a subscribe or unsubscribe message of connection k.
Message(k, type, channel) ==
  /\ sockets[k].readyState = "OPEN"
  /\ sockets' = [sockets EXCEPT ![k] =
        IF type = "subscribe"
          THEN [@ EXCEPT !.subscriptions = @ \cup {channel}]
          ELSE [@ EXCEPT !.subscriptions = @ \ {channel}]]
  /\ sockets'[k] # sockets[k]
  /\ UNCHANGED << clients, broadcasts, routeVars, fn, hook >>

\* The socket of connection k leaves OPEN; its "close" event comes later.
SocketLost(k) ==
  /\ sockets[k].readyState = "OPEN"
  /\ sockets' = [sockets EXCEPT ![k].readyState = "CLOSING"]
  /\ UNCHANGED << clients, broadcasts, routeVars, fn, hook >>

\* ws.on("close")
Close(k) ==
  /\ sockets[k].readyState = "CLOSING"
  /\ sockets' = [sockets EXCEPT ![k].readyState = "CLOSED"]
  /\ clients' = MapDelete(clients, sockets[k].clientId)
  /\ UNCHANGED << broadcasts, routeVars, fn, hook >>

\* ws.on("error"): the socket is still OPEN after it, or no longer.
Error(k, readyState) ==
  /\ sockets[k].readyState = "OPEN"
  /\ sockets' = [sockets EXCEPT ![k].readyState = readyState, ![k].errored = TRUE]
  /\ clients' = MapDelete(clients, sockets[k].clientId)
  /\ UNCHANGED << broadcasts, routeVars, fn, hook >>

\* broadcastToSubscribers(channel, data), from a route or from the 5 s timer
\* (channel 'agents:status'). The entry keeps what the call saw.
Broadcast(channel) ==
  /\ Len(broadcasts) < MaxBroadcasts
  /\ LET to == Recipients(clients, sockets, channel)
         b == Len(broadcasts) + 1
     IN  /\ broadcasts' = Append(broadcasts,
               [channel |-> channel, sentTo |-> to,
                registered |-> MapValues(clients),
                open |-> { k \in Connections : sockets[k].readyState = "OPEN" },
                subscribed |-> { k \in Connections : channel \in sockets[k].subscriptions }])
         /\ sockets' = [ k \in Connections |->
               IF k \in to THEN [sockets[k] EXCEPT !.inbox = Append(@, b)]
               ELSE sockets[k] ]
  /\ UNCHANGED << clients, routeVars, fn, hook >>

WsNext ==
  \/ \E k \in Connections, clientId \in ClientIds : Connection(k, clientId)
  \/ \E k \in Connections, type \in {"subscribe", "unsubscribe"}, channel \in Channels :
       Message(k, type, channel)
  \/ \E k \in Connections : SocketLost(k)
  \/ \E k \in Connections : Close(k)
  \/ \E k \in Connections, readyState \in {"OPEN", "CLOSING"} : Error(k, readyState)
  \/ \E channel \in Channels : Broadcast(channel)

\* ------------------------------------------------------------------ actions

\* Whether another call for matchId is between its guard and its finally.
OtherInFlight(c, matchId) ==
  \E d \in Slots \ {c} : run[d].state = "running" /\ call[d].matchId = matchId

FreeSlot(c) == pc[c] \in {"idle", "done"} /\ pending[c] = {}

\* The turns in which the run can get as far as the synthesizer: there the
\* records behind results are fixed.
UpChoices(c) ==
  IF pc[c] = "tasks" /\ stage[c] >= NumStages - 1 THEN BOOLEAN ELSE {FALSE}

\* POST /api/predictions/analyze arrives: the handler up to its first await.
Request(c, matchId, forceRefresh) ==
  /\ FreeSlot(c)
  /\ \A i, j \in 1..Len(SlotOrder) : i < j /\ SlotOrder[j] = c => ~FreeSlot(SlotOrder[i])
  /\ reqCount < MaxRequests
  /\ reqCount' = reqCount + 1
  /\ call' = [call EXCEPT ![c] = [id |-> reqCount + 1, matchId |-> matchId,
                                  forceRefresh |-> forceRefresh]]
  /\ LET x == [Cur(c) EXCEPT !.stage = 0, !.results = << >>, !.run = NoRun,
                             !.response = NoResponse, !.trace = << >>]
     IN  Commit(c, IF matchId = NoMatchId
                     THEN Respond(x, 400, "Match ID is required", NoRow)
                   ELSE IF ~forceRefresh THEN [x EXCEPT !.pc = "getPrediction"]
                   ELSE [x EXCEPT !.pc = "getMatch"])
  /\ UNCHANGED << fn, wsVars, hook >>

StorageAwaits == {"getPrediction", "getMatch", "getPlayers", "storeAnalyses",
                  "createPrediction"}

\* The row a getPredictionByMatch answers with (0: none).
RowChoices(c) ==
  IF pc[c] = "getPrediction" /\ PredictionsOf(predictions, call[c].matchId) # {}
    THEN PredictionsOf(predictions, call[c].matchId) ELSE {0}

\* How many inserts of a failed storeAgentAnalyses were done.
InsertChoices(c, outcome) ==
  IF pc[c] = "storeAnalyses" /\ outcome = "error"
    THEN 0..Len(run[c].toStore) ELSE {0}

\* The storage call slot c awaits settles and the handler runs on.
StorageSettles(c, outcome) ==
  /\ pc[c] \in StorageAwaits
  /\ \E i \in RowChoices(c), n \in InsertChoices(c, outcome), up \in UpChoices(c),
        ai \in GeneratePredictionOutcomes :
       LET x == Cur(c)
           matchId == call[c].matchId
       IN  Commit(c,
             CASE pc[c] = "getPrediction" ->
                    IF outcome = "error" THEN RouteCatch(x)
                    ELSE PredictionAnswered(x, matchId, i)
               [] pc[c] = "getMatch" ->
                    IF outcome = "error" THEN RouteCatch(x)
                    ELSE MatchAnswered(x, matchId, OtherInFlight(c, matchId))
               [] pc[c] = "getPlayers" ->
                    IF outcome = "error" THEN FailRun(x, matchId, "storage")
                    ELSE PlayersAnswered(x, MatchTable[matchId], up, ai)
               [] pc[c] = "storeAnalyses" ->
                    IF outcome = "error" THEN AnalysesStoreFailed(x, matchId, n)
                    ELSE AnalysesStored(x, matchId)
               [] OTHER ->
                    IF outcome = "error" THEN RouteCatch(x)
                    ELSE PredictionCreated(x, matchId, call[c]))
  /\ UNCHANGED << call, reqCount, fn, wsVars, hook >>

\* The promise of task function t started by slot c resolves.
TaskSettles(c, t) ==
  /\ t \in pending[c]
  /\ \E up \in UpChoices(c), ai \in GeneratePredictionOutcomes :
       Commit(c, TaskResolved(Cur(c), MatchTable[call[c].matchId], t, up, ai))
  /\ UNCHANGED << call, reqCount, fn, wsVars, hook >>

\* ------------------------------------------------ the useWebSocket hook

MaxSockets == 4
reconnectAttempts == 1

\* hook.sockets: the WebSocket objects the hook created, each with the
\* handlers connect assigned; by and afterDisconnect record which call of
\* connect created it and whether disconnect was the last explicit call.
\* hook.ws: ws.current as an index in hook.sockets, 0 for null.
\* hook.timers: the setTimeout callbacks of onclose that have not run.
\* hook.sinceOpen: sockets created by a timer since the last onopen.
NoHook ==
  [ sockets |-> << >>, ws |-> 0, reconnectCount |-> 0, timers |-> 0,
    connectionStatus |-> "disconnected", mounted |-> FALSE,
    disconnected |-> FALSE, sinceOpen |-> 0 ]

CurrentOpen(h) == h.ws # 0 /\ h.sockets[h.ws].readyState = "OPEN"

connect(h, by) ==
  IF CurrentOpen(h) THEN h
  ELSE [ h EXCEPT
           !.connectionStatus = "connecting",
           !.sockets = Append(@, [ readyState |-> "CONNECTING", by |-> by,
                                   afterDisconnect |-> h.disconnected ]),
           !.ws = Len(h.sockets) + 1,
           !.sinceOpen = IF by = "timer" THEN @ + 1 ELSE @ ]

disconnect(h) ==
  [ h EXCEPT
      !.sockets = IF h.ws = 0 THEN @
                  ELSE [ @ EXCEPT ![h.ws].readyState =
                           IF @ = "CLOSED" THEN "CLOSED" ELSE "CLOSING" ],
      !.ws = 0,
      !.connectionStatus = "disconnected" ]

CanCreate(h) == CurrentOpen(h) \/ Len(h.sockets) < MaxSockets

HookStep(h) ==
  /\ hook' = h
  /\ UNCHANGED << routeVars, fn, wsVars >>

UseEffect ==
  /\ ~hook.mounted
  /\ CanCreate(hook)
  /\ HookStep(connect([ hook EXCEPT !.mounted = TRUE, !.disconnected = FALSE ],
                      "connect"))

UseEffectCleanup ==
  /\ hook.mounted
  /\ HookStep(disconnect([ hook EXCEPT !.mounted = FALSE, !.disconnected = TRUE ]))

ConnectCalled ==
  /\ hook.mounted
  /\ CanCreate(hook)
  /\ HookStep(connect([ hook EXCEPT !.disconnected = FALSE ], "connect"))

DisconnectCalled ==
  /\ hook.mounted
  /\ HookStep(disconnect([ hook EXCEPT !.disconnected = TRUE ]))

Onopen(k) ==
  /\ k \in 1..Len(hook.sockets)
  /\ hook.sockets[k].readyState = "CONNECTING"
  /\ HookStep([ hook EXCEPT !.sockets[k].readyState = "OPEN",
                            !.connectionStatus = "connected",
                            !.reconnectCount = 0,
                            !.sinceOpen = 0 ])

Onerror(k) ==
  /\ k \in 1..Len(hook.sockets)
  /\ hook.sockets[k].readyState \in {"CONNECTING", "OPEN"}
  /\ HookStep([ hook EXCEPT !.connectionStatus = "error" ])

Onclose(k) ==
  /\ k \in 1..Len(hook.sockets)
  /\ hook.sockets[k].readyState # "CLOSED"
  /\ HookStep([ hook EXCEPT
                  !.sockets[k].readyState = "CLOSED",
                  !.connectionStatus = "disconnected",
                  !.timers = IF hook.reconnectCount < reconnectAttempts
                             THEN @ + 1 ELSE @ ])

ReconnectTimer ==
  /\ hook.timers > 0
  /\ CanCreate(hook)
  /\ HookStep(connect([ hook EXCEPT !.timers = @ - 1,
                                    !.reconnectCount = @ + 1 ], "timer"))

ServerInit ==
  /\ agents = initializeAgents
  /\ currentAnalysis = {}
  /\ predictions = SeedPredictions
  /\ agentRows = << >>
  /\ pc = [c \in Slots |-> "idle"]
  /\ call = [c \in Slots |-> NoCall]
  /\ stage = [c \in Slots |-> 0]
  /\ pending = [c \in Slots |-> {}]
  /\ results = [c \in Slots |-> << >>]
  /\ run = [c \in Slots |-> NoRun]
  /\ response = [c \in Slots |-> NoResponse]
  /\ trace = [c \in Slots |-> << >>]
  /\ reqCount = 0
  /\ statusLog = << >>
  /\ clients = << >>
  /\ sockets = [k \in Connections |-> NoSocket]
  /\ broadcasts = << >>
  /\ hook = NoHook

Init == ServerInit /\ fn = NoFn

Next ==
  \/ \E c \in Slots, matchId \in MatchInputs, forceRefresh \in BOOLEAN :
       Request(c, matchId, forceRefresh)
  \/ \E c \in Slots, outcome \in StorageOutcomes : StorageSettles(c, outcome)
  \/ \E c \in Slots, t \in TaskNames : TaskSettles(c, t)

Spec == Init /\ [][Next]_vars

\* What a StorageSettles(c, outcome) step does to pc, and a TaskSettles(c, t)
\* step to pending: the handler of slot c leaves the await it is at; a task
\* of slot c is no longer pending, or the next stage is.
AwaitLeft(c) ==
  /\ pc[c] \in StorageAwaits
  /\ \E p \in (StorageAwaits \cup {"tasks", "done"}) \ {pc[c]} :
       pc' = [pc EXCEPT ![c] = p]

TaskLeft(c) ==
  /\ pending[c] # {}
  /\ \E s \in ({ pending[c] \ {t} : t \in pending[c] }
               \cup { Range(Stages[k]) : k \in 1..NumStages }) \ {pending[c]} :
       pending' = [pending EXCEPT ![c] = s]

\* Every external call returns or fails in the end: the storage call a
\* handler awaits settles, and so does a task function that was started.
ExternalCallsSettle ==
  \A c \in Slots : WF_pc(AwaitLeft(c)) /\ WF_pending(TaskLeft(c))

\* The requests of the runs followed to their end: forced, for a match whose
\* participants resolve and for one with a participant missing.
LiveMatchInputs == {"m1", "m3"}

FairNext ==
  \/ \E c \in Slots, matchId \in LiveMatchInputs : Request(c, matchId, TRUE)
  \/ \E c \in Slots, outcome \in StorageOutcomes : StorageSettles(c, outcome)
  \/ \E c \in Slots, t \in TaskNames : TaskSettles(c, t)

FairSpec == Init /\ [][FairNext]_vars /\ ExternalCallsSettle

\* ------------------------------------------- the task functions on their own

\* Each task the orchestrator starts, with each way its own work can come out.
TaskInputs ==
  UNION { { [kind |-> "task", task |-> t, work |-> w, done |-> FALSE,
             record |-> Thrown("")] : w \in WorkOutcomes(t) } : t \in TaskNames }

TaskInit == ServerInit /\ fn \in TaskInputs

\* The orchestrator's arrow function for fn.task is invoked once.
InvokeTask ==
  /\ fn.kind = "task"
  /\ ~fn.done
  /\ fn' = [fn EXCEPT !.done = TRUE, !.record = TaskFunction(fn.task, fn.work)]
  /\ UNCHANGED serverVars

TaskNext == InvokeTask

TaskSpec == TaskInit /\ [][TaskNext]_vars

\* --------------------------------------------- the synthesizer on its own

\* A record as a task function returns it, with advantage a.
FactorResult(a) ==
  [ threw |-> FALSE, task |-> "factor", conclusion |-> "Advantage",
    advantage |-> a, confidence |-> 900 ]

\* analysisResults entries: a record per advantage value, the record of a
\* task's catch block (confidence 0.0), or undefined.
SynthEntries ==
  { FactorResult(a) : a \in Advantages }
    \cup { ErrorRecord("Recent Matches Analyst"), Thrown("undefined") }

\* a records for player1 followed by b records for player2.
BlockList(a, b) ==
  [ i \in 1..(a + b) |-> IF i <= a THEN FactorResult("player1") ELSE FactorResult("player2") ]

SynthLists ==
  SeqsUpTo(SynthEntries, MaxShortList) \cup
  { BlockList(a, b) : a \in 0..MaxFactors, b \in 0..MaxFactors }

SynthInputs ==
  { [kind |-> "synth", analysisResults |-> l, done |-> FALSE,
     ai |-> [kind |-> "none"], prediction |-> [threw |-> TRUE]] :
      l \in { q \in SynthLists : Len(q) <= MaxFactors } }

SynthInit == ServerInit /\ fn \in SynthInputs

\* synthesizePrediction(match, player1, player2, analysisResults) is called
\* once for players p1, p2.
Synthesize ==
  /\ fn.kind = "synth"
  /\ ~fn.done
  /\ \E ai \in GeneratePredictionOutcomes :
       fn' = [fn EXCEPT !.done = TRUE, !.ai = ai,
                        !.prediction = synthesizePrediction("p1", "p2",
                                                            fn.analysisResults, ai)]
  /\ UNCHANGED serverVars

SynthNext == Synthesize

SynthSpec == SynthInit /\ [][SynthNext]_vars

\* --------------------------------------------- the predictions table on its own

\* Longest predictions table before the insert under test.
MaxPriorRows == 2

\* Rows a caller hands to createPrediction.
InsertPredictions ==
  { PredictionRow(m, w, pr, 750, n, 0, FALSE) :
      m \in {"m1", "m2"}, w \in PlayerTable, pr \in {550, 725}, n \in {0, 2} }

\* Tables earlier inserts leave behind.
RECURSIVE TablesUpTo(_)
TablesUpTo(n) ==
  IF n = 0 THEN { << >> }
  ELSE LET shorter == TablesUpTo(n - 1)
       IN  shorter \cup { createPrediction(t, r).table :
                            t \in { q \in shorter : Len(q) = n - 1 },
                            r \in InsertPredictions }

StoreInputs ==
  { [kind |-> "store", table |-> t, P |-> r, step |-> "start", got |-> NoRow] :
      t \in TablesUpTo(MaxPriorRows), r \in InsertPredictions }

StoreInit == ServerInit /\ fn \in StoreInputs

\* storage.createPrediction(P)
StoreCreate ==
  /\ fn.kind = "store" /\ fn.step = "start"
  /\ fn' = [fn EXCEPT !.table = createPrediction(fn.table, fn.P).table,
                      !.step = "created"]
  /\ UNCHANGED serverVars

\* storage.getPredictionByMatch(P.matchId) right after it
StoreFetch ==
  /\ fn.kind = "store" /\ fn.step = "created"
  /\ \E i \in PredictionsOf(fn.table, fn.P.matchId) :
       fn' = [fn EXCEPT !.got = fn.table[i], !.step = "fetched"]
  /\ UNCHANGED serverVars

StoreNext == StoreCreate \/ StoreFetch

StoreSpec == StoreInit /\ [][StoreNext]_vars

\* ------------------------------------------------- the WebSocket server alone

WsSpec == Init /\ [][WsNext]_vars

\* ------------------------------------------------ the client hook alone

HookNext ==
  \/ UseEffect
  \/ UseEffectCleanup
  \/ ConnectCalled
  \/ DisconnectCalled
  \/ \E k \in 1..MaxSockets : Onopen(k)
  \/ \E k \in 1..MaxSockets : Onerror(k)
  \/ \E k \in 1..MaxSockets : Onclose(k)
  \/ ReconnectTimer

HookSpec == Init /\ [][HookNext]_vars

\* ------------------------------------------------------------------ claims

\* C1: a call of analyzeMatch is rejected with 'Match analysis already in
\* progress' exactly when another call for the same match id was between its
\* guard and its finally at that moment; the rejected call is over at once
\* (it started no task and waits for nothing), and a call whose match id no
\* other run holds is never rejected.
C1_RejectedIffInFlight ==
  \A c \in Slots :
    /\ run[c].state = "rejected" =>
         /\ run[c].guardSaw
         /\ run[c].error = "Match analysis already in progress"
         /\ pc[c] = "done" /\ pending[c] = {} /\ run[c].statusUpdates = 0
         /\ response[c].status = 500
         /\ trace[c] = << "analysis:started", "response" >>
    /\ run[c].state \in {"running", "returned", "failed"} => ~run[c].guardSaw

C1_Witness ==
  \E c, d \in Slots :
    /\ c # d
    /\ run[c].state = "rejected"
    /\ run[d].state = "running" /\ pc[d] = "tasks"
    /\ call[c].matchId = call[d].matchId

\* C2: in every reachable state at most one run per match id is in flight,
\* and the in-flight marker holds exactly the ids of the runs in flight.
C2_OneRunPerMatch ==
  /\ \A m \in DOMAIN MatchTable :
       Cardinality({ c \in Slots : run[c].state = "running" /\ call[c].matchId = m }) <= 1
  /\ currentAnalysis = { call[c].matchId : c \in { d \in Slots : run[d].state = "running" } }

C2_Witness ==
  /\ \A c \in Slots : run[c].state = "running" /\ pc[c] = "tasks"
  /\ Cardinality(currentAnalysis) = Cardinality(Slots)

\* C3: when a task function invocation of a run has thrown, the run has failed
\* with that error: it returned no prediction, did not call the synthesizer
\* and stored no agent_analysis row, and the request got no prediction.
C3_ThrowFailsRun ==
  \A c \in Slots :
    run[c].threw =>
      /\ run[c].state = "failed" /\ run[c].error = "task"
      /\ run[c].synthCalls = 0 /\ run[c].rows = 0
      /\ run[c].prediction.threw
      /\ response[c].status = 500 /\ response[c].prediction = NoRow

C3_Witness ==
  \E c \in Slots :
    /\ run[c].threw /\ run[c].state = "failed"
    /\ stage[c] = NumStages /\ pc[c] = "done"
    /\ call[c].matchId \notin currentAnalysis

\* C4: an invocation of a task function never throws, and when its own work
\* fails the record it returns has advantage 'none' and confidence 0.0.
C4_TaskNeverThrows ==
  (fn.kind = "task" /\ fn.done) =>
    /\ ~fn.record.threw
    /\ fn.work.kind = "fail" =>
         fn.record.advantage = "none" /\ fn.record.confidence = 0

\* The synthesizer took its fallback path.
FallbackTaken == fn.kind = "synth" /\ fn.done /\ fn.ai.kind # "ok"

\* The entries of an analysisResults list whose advantage is one of tags.
Favoring(list, tags) ==
  Cardinality({ i \in 1..Len(list) : ~list[i].threw /\ list[i].advantage \in tags })

Clamp(v, lo, hi) == IF v < lo THEN lo ELSE IF v > hi THEN hi ELSE v

\* C5: on the fallback path, with a records favouring player 1 and b favouring
\* player 2, winProbability = clamp(0.5 + 0.05 * |a - b|, 0.5, 0.9),
\* confidenceLevel = 0.75, and when a # b the winner is the player with the
\* larger count; [player1, player1, player2] gives player 1 with 0.55.
C5_FallbackMajorityVote ==
  FallbackTaken =>
    LET a == Favoring(fn.analysisResults, {"player1", "slight_player1"})
        b == Favoring(fn.analysisResults, {"player2", "slight_player2"})
        d == IF a > b THEN a - b ELSE b - a
        p == fn.prediction
    IN  /\ p.winProbability = Clamp(500 + 50 * d, 500, 900)
        /\ p.confidenceLevel = 750
        /\ a > b => p.predictedWinnerId = "p1"
        /\ b > a => p.predictedWinnerId = "p2"
        /\ fn.analysisResults = << FactorResult("player1"), FactorResult("player1"),
                                   FactorResult("player2") >>
             => p.predictedWinnerId = "p1" /\ p.winProbability = 550

C5_Witness ==
  /\ FallbackTaken
  /\ Favoring(fn.analysisResults, {"player1", "slight_player1"})
       > Favoring(fn.analysisResults, {"player2", "slight_player2"}) + 8
  /\ fn.prediction.winProbability = 900

\* C6: when the primary path of the synthesizer fails, synthesizePrediction
\* does not throw: it returns the majority-vote prediction over the compiled
\* factors, a record of the same shape as the primary one, whose reasoning
\* text alone tells the paths apart.
C6_PrimaryFailureFallsBack ==
  FallbackTaken =>
    /\ ~fn.prediction.threw
    /\ DOMAIN fn.prediction = {"threw", "predictedWinnerId", "winProbability",
                               "confidenceLevel", "factorAnalysis", "reasoning"}
    /\ fn.prediction.predictedWinnerId \in {"p1", "p2"}
    /\ fn.prediction.reasoning = FallbackReasoning
    /\ Len(fn.prediction.factorAnalysis)
         = Cardinality({ i \in 1..Len(fn.analysisResults) : ~fn.analysisResults[i].threw })

C6_Witness ==
  /\ fn.kind = "synth" /\ fn.done
  /\ fn.ai.kind = "TypeError"
  /\ fn.prediction.reasoning = FallbackReasoning
  /\ Len(fn.prediction.factorAnalysis) < Len(fn.analysisResults)

StatusTransitions ==
  { << "idle", "processing" >>, << "active", "processing" >>,
    << "error", "processing" >>, << "processing", "active" >>,
    << "processing", "error" >> }

\* C7: every updateAgentStatus call that changes an entry's status makes one
\* of the transitions idle/active/error -> processing, processing -> active,
\* processing -> error; no call sets idle, and an entry that was started once
\* is not idle.
C7_StatusTransitions ==
  /\ \A i \in 1..Len(statusLog) :
       /\ statusLog[i].to # "idle"
       /\ statusLog[i].from # statusLog[i].to =>
            << statusLog[i].from, statusLog[i].to >> \in StatusTransitions
  /\ \A n \in AgentNames : agents[n].totalAnalyses > 0 => agents[n].status # "idle"

C7_Witness ==
  /\ \E i \in 1..Len(statusLog) :
       statusLog[i].from = "active" /\ statusLog[i].to = "processing"
  /\ \A c \in Slots : run[c].state = "running"
  /\ \E c, d \in Slots : call[c].matchId # call[d].matchId

\* C8: when a participant of the match has no player row, analyzeMatch fails
\* with 'Player data not found' before any task function is started: the run
\* makes no updateAgentStatus call, no synthesizer call and stores no
\* agent_analysis row.
C8_MissingPlayerFailsEarly ==
  \A c \in Slots :
    ( call[c].matchId \in DOMAIN MatchTable
      /\ ~ParticipantsResolvable(MatchTable[call[c].matchId]) ) =>
        /\ pc[c] \notin {"tasks", "storeAnalyses", "createPrediction"}
        /\ pending[c] = {} /\ results[c] = << >>
        /\ run[c].statusUpdates = 0 /\ run[c].synthCalls = 0 /\ run[c].rows = 0
        /\ run[c].state # "returned"
        /\ (run[c].state = "failed" /\ run[c].error # "storage")
             => run[c].error = "Player data not found"

C8_Witness ==
  \E c \in Slots :
    /\ run[c].state = "failed" /\ run[c].error = "Player data not found"
    /\ response[c].status = 500
    /\ \E n \in AgentNames : agents[n].status = "processing"

\* What a request that ran the orchestrator and answers with a prediction did.
FreshOrder ==
  << "analysis:started", "run:begin", "synthesizePrediction", "storeAgentAnalyses",
     "run:return", "createPrediction", "analysis:completed", "response" >>

\* The predictions row request c inserted, if any.
StoredBy(c) ==
  { i \in 1..Len(predictions) :
      predictions[i].req = call[c].id /\ predictions[i].matchId = call[c].matchId }

\* C10 as stated: every request answered with a prediction broadcast
\* 'analysis:started', ran the orchestrator, stored the rows, broadcast
\* 'analysis:completed' and answered, in this order; 'analysis:completed' is
\* broadcast only for a request whose predictions row is stored.
C10_EveryPredictionInOrder ==
  \A c \in Slots :
    /\ response[c].status = 200 => trace[c] = FreshOrder
    /\ "analysis:completed" \in Range(trace[c]) => StoredBy(c) # {}

\* C10 (amended): a request answered with a prediction either answers with a
\* stored row its lookup found, having broadcast nothing and run nothing, or
\* did the steps of FreshOrder in that order and answers with the row it
\* inserted; 'analysis:completed' is broadcast only for a request whose
\* predictions row is stored.
C10_PredictionCachedOrInOrder ==
  \A c \in Slots :
    /\ response[c].status = 200 =>
         \/ /\ trace[c] = << "response" >>
            /\ ~call[c].forceRefresh
            /\ run[c].state = "none"
            /\ response[c].prediction \in Range(predictions)
            /\ response[c].prediction.matchId = call[c].matchId
            /\ response[c].prediction.req # call[c].id
         \/ /\ trace[c] = FreshOrder
            /\ response[c].prediction.req = call[c].id
            /\ response[c].prediction \in Range(predictions)
    /\ "analysis:completed" \in Range(trace[c]) => StoredBy(c) # {}

C10_Witness ==
  \E c \in Slots :
    /\ response[c].status = 200
    /\ trace[c] = << "response" >>
    /\ response[c].prediction = SeedPredictions[1]

\* The tasks of stage k, and the results a run holds once stages 1..k are over.
StageSet(k) == Range(Stages[k])

RECURSIVE ResultsThrough(_)
ResultsThrough(k) == IF k = 0 THEN << >> ELSE ResultsThrough(k - 1) \o Stages[k]

\* The stages of the recent-performance, surface, statistical and physical
\* groups; the contextual group is the last stage.
EarlyGroupStages == 1..4

\* C11 as stated: the non-matchup groups do not wait for each other: while a
\* run awaits the tasks of one of them, the tasks of the later ones are in
\* flight too.
C11_GroupsIndependent ==
  \A c \in Slots :
    (pc[c] = "tasks" /\ stage[c] \in EarlyGroupStages) =>
      \A k \in EarlyGroupStages : k > stage[c] => StageSet(k) \subseteq pending[c]

\* C11 (amended): the groups of a run are awaited one after the other: the
\* tasks in flight for a run all belong to the one group it awaits, and the run
\* holds the results of every task of the groups before it.
C11_GroupsOneAfterTheOther ==
  \A c \in Slots :
    /\ pending[c] # {} => pc[c] = "tasks"
    /\ pc[c] = "tasks" =>
         /\ pending[c] # {}
         /\ pending[c] \subseteq StageSet(stage[c])
         /\ results[c] = ResultsThrough(stage[c] - 1)

\* Two groups have tasks in flight at once only in different runs.
C11_Witness ==
  \E c, d \in Slots :
    /\ c # d
    /\ stage[c] = 2 /\ pending[c] = StageSet(2)
    /\ stage[d] = 1 /\ pending[d] # {}

MatchupTasks == << "Playing Style Profiler", "Head-to-Head Analyst",
                   "Tactical Battle Synthesizer" >>

\* C12: within a run Playing Style Profiler, Head-to-Head Analyst and Tactical
\* Battle Synthesizer are started in this order, each only after the one
\* before it has completed; no two of them are in flight together.
C12_MatchupInSequence ==
  \A c \in Slots :
    /\ Cardinality(pending[c] \cap Range(MatchupTasks)) <= 1
    /\ \A i \in 2..Len(MatchupTasks) :
         (MatchupTasks[i] \in pending[c] \/ MatchupTasks[i] \in Range(results[c]))
           => MatchupTasks[i - 1] \in Range(results[c])

C12_Witness ==
  \E c \in Slots :
    /\ pending[c] = { "Tactical Battle Synthesizer" }
    /\ "Head-to-Head Analyst" \in Range(results[c])
    /\ run[c].state = "running"

\* The stages of the five non-matchup groups.
NonMatchupStages == EarlyGroupStages \cup {NumStages}

\* C13: when a run comes to one of the five non-matchup groups, all tasks of
\* the group are started before the run waits: they are all in flight at once.
C13_GroupInFlightTogether ==
  [][ \A c \in Slots :
        (stage'[c] # stage[c] /\ stage'[c] \in NonMatchupStages)
          => pending'[c] = StageSet(stage'[c]) ]_vars

\* A run is over, its participants were found and no storage call failed.
RunOverAfterTasks(c) ==
  /\ run[c].state \in {"failed", "returned"}
  /\ run[c].error \notin {"Player data not found", "storage"}

\* C14: a run calls the synthesizer exactly once, after every task of the six
\* groups has completed, with one factor record per task of the run.
C14_SynthesizerOnceAfterAllTasks ==
  \A c \in Slots :
    /\ run[c].synthCalls <= 1
    /\ run[c].synthCalls = 1 =>
         /\ results[c] = ResultsThrough(NumStages)
         /\ pending[c] = {}
         /\ ~run[c].prediction.threw =>
              Len(run[c].prediction.factorAnalysis) = Len(results[c])
    /\ RunOverAfterTasks(c) => run[c].synthCalls = 1

\* The pieces of a reply that carry one of the three markers.
MarkerForms == {"adv", "slight", "noclear"}

\* C15: whatever the reply text, the advantage of the record a task function
\* returns is one of player1, player2, none, slight_player1, slight_player2,
\* and it is none when the reply holds no marker.
C15_AdvantageOfFiveValues ==
  (fn.kind = "task" /\ fn.done /\ ~fn.record.threw) =>
    /\ fn.record.advantage \in Advantages
    /\ ( fn.work.kind = "reply"
         /\ \A i \in 1..Len(fn.work.reply) : fn.work.reply[i].form \notin MarkerForms )
         => fn.record.advantage = "none"

\* C17: getPredictionByMatch(P.matchId) right after createPrediction(P)
\* answers with a row that has P's winner id, probability and factor list
\* length, whatever was stored before.
C17_RoundTrip ==
  (fn.kind = "store" /\ fn.step = "fetched") =>
    /\ fn.got.predictedWinnerId = fn.P.predictedWinnerId
    /\ fn.got.winProbability = fn.P.winProbability
    /\ fn.got.factors = fn.P.factors

Responses(c) == Cardinality({ i \in 1..Len(trace[c]) : trace[c][i] = "response" })

\* The orchestrator-level errors the spec names: the participant lookup
\* failed, or a run for the match was under way.
OrchestratorLevelErrors == {"Player data not found", "Match analysis already in progress"}

\* How each response of the route comes about, 400 aside.
ResponseOfRoute(c) ==
  /\ response[c].status \in {200, 404, 500}
  /\ response[c].status = 200 =>
       /\ response[c].error = ""
       /\ response[c].prediction # NoRow
       /\ response[c].prediction.matchId = call[c].matchId
  /\ response[c].status = 404 =>
       /\ response[c].error = "Match not found"
       /\ response[c].prediction = NoRow
       /\ call[c].matchId \notin DOMAIN MatchTable
       /\ run[c].state = "none"
  /\ response[c].status = 500 =>
       /\ response[c].error = "Failed to analyze match"
       /\ response[c].prediction = NoRow
  /\ call[c].matchId \notin DOMAIN MatchTable => response[c].status \in {404, 500}
  /\ run[c].error \in OrchestratorLevelErrors => response[c].status = 500

\* C19 as stated: every request gets exactly one response, and it is a
\* prediction, the 404 of a match that does not exist, or the 500 with the
\* generic message.
C19_PredictionOr404Or500 ==
  \A c \in Slots :
    /\ Responses(c) <= 1
    /\ pc[c] = "done" <=> Responses(c) = 1
    /\ pc[c] = "done" => ResponseOfRoute(c)

\* C19 (amended): every request gets exactly one response, and it is the 400
\* "Match ID is required" of a request without matchId, a prediction, the 404
\* of a match that does not exist, or the 500 with the generic message, which
\* every orchestrator-level error ends in.
C19_OneResponsePerRequest ==
  \A c \in Slots :
    /\ Responses(c) <= 1
    /\ pc[c] = "done" <=> Responses(c) = 1
    /\ pc[c] = "done" =>
         IF call[c].matchId = NoMatchId
           THEN /\ response[c] = [status |-> 400, error |-> "Match ID is required",
                                  prediction |-> NoRow]
                /\ trace[c] = << "response" >>
                /\ run[c].state = "none"
           ELSE ResponseOfRoute(c)

C19_Witness ==
  \E c, d \in Slots :
    /\ c # d
    /\ pc[c] = "done" /\ response[c].status = 500
    /\ run[c].error = "Match analysis already in progress"
    /\ pc[d] = "done" /\ response[d].status = 500
    /\ run[d].error = "Player data not found"

\* Whether connection k is in the clients Map, has an open socket, and was
\* closed or had an error.
Registered(k) == k \in MapValues(clients)
SocketOpen(k) == sockets[k].readyState = "OPEN"
ClosedOrErrored(k) == sockets[k].readyState \in {"CLOSING", "CLOSED"} \/ sockets[k].errored

\* C16: a broadcast on a channel is sent to exactly the connections that are
\* then in the clients Map, have an open socket and are subscribed to the
\* channel; a connection that is not subscribed to it, or that was closed or
\* had an error, is sent none of the broadcasts made from then on.
C16_DeliveredToSubscribers ==
  [][ \A k \in Connections :
        LET sent == broadcasts' # broadcasts
            channel == IF sent THEN broadcasts'[Len(broadcasts')].channel ELSE ""
            got == sockets'[k].inbox # sockets[k].inbox
        IN  /\ got <=> /\ sent
                       /\ Registered(k)
                       /\ SocketOpen(k)
                       /\ channel \in sockets[k].subscriptions
            /\ got => sockets'[k].inbox = Append(sockets[k].inbox, Len(broadcasts'))
            /\ sent => (k \in broadcasts'[Len(broadcasts')].sentTo <=> got)
            /\ ClosedOrErrored(k) => ~got
            /\ (sockets[k].readyState = "CLOSED" \/ sockets[k].errored) => ~Registered(k) ]_vars

C16_Witness ==
  \E b \in DOMAIN broadcasts, k1, k2 \in Connections :
    /\ k1 \in broadcasts[b].sentTo
    /\ b \in Range(sockets[k1].inbox)
    /\ k2 \notin broadcasts[b].sentTo
    /\ k2 \in broadcasts[b].registered \cap broadcasts[b].subscribed
    /\ k2 \notin broadcasts[b].open
    /\ b \notin Range(sockets[k2].inbox)

\* C20: every broadcast a connection is sent is sent in the step that makes
\* it, to a connection that is open and subscribed at that moment: nothing
\* made before the subscribe or while no socket was open arrives later; and a
\* new connection starts with no subscription and nothing received.
C20_NoReplay ==
  [][ \A k \in Connections :
        /\ (sockets[k].readyState = "NONE" /\ sockets'[k].readyState # "NONE") =>
             /\ sockets'[k].subscriptions = {}
             /\ sockets'[k].inbox = << >>
        /\ sockets'[k].inbox # sockets[k].inbox =>
             /\ Len(broadcasts') = Len(broadcasts) + 1
             /\ sockets'[k].inbox = Append(sockets[k].inbox, Len(broadcasts'))
        /\ \A i \in DOMAIN sockets'[k].inbox :
             LET b == sockets'[k].inbox[i]
             IN  /\ b \in DOMAIN broadcasts'
                 /\ k \in broadcasts'[b].open \cap broadcasts'[b].subscribed
        /\ \A i, j \in DOMAIN sockets'[k].inbox :
             i < j => sockets'[k].inbox[i] < sockets'[k].inbox[j] ]_vars

C20_Witness ==
  \E ch \in Channels :
    /\ Len(broadcasts) = 2
    /\ broadcasts[1].channel = ch /\ broadcasts[2].channel = ch
    /\ broadcasts[1].open = {} /\ 1 \in broadcasts[1].subscribed
    /\ sockets[1].readyState = "CLOSED"
    /\ sockets[2].readyState = "OPEN" /\ ch \in sockets[2].subscriptions
    /\ sockets[2].inbox = << 2 >>

\* C24: with an empty factor list the fallback of the synthesizer returns a
\* prediction whose winner is one of the two participants and whose
\* probability lies in [0.5, 0.9].
C24_EmptyListFallback ==
  (FallbackTaken /\ fn.prediction.factorAnalysis = << >>) =>
    /\ ~fn.prediction.threw
    /\ fn.prediction.predictedWinnerId \in {"p1", "p2"}
    /\ fn.prediction.winProbability \in 500..900
    /\ fn.prediction.confidenceLevel = 750

C24_Witness ==
  /\ FallbackTaken
  /\ fn.analysisResults = << >>
  /\ fn.prediction.factorAnalysis = << >>
  /\ fn.prediction.predictedWinnerId = "p2"

\* The list with every slight_playerN record counted as a playerN record, and
\* the list without its 'none' records.
Unslight(list) ==
  [ i \in 1..Len(list) |->
      IF list[i].threw THEN list[i]
      ELSE [list[i] EXCEPT !.advantage =
              CASE @ = "slight_player1" -> "player1"
                [] @ = "slight_player2" -> "player2"
                [] OTHER -> @] ]

WithoutNone(list) == SelectSeq(list, LAMBDA r : r.threw \/ r.advantage # "none")

\* Winner and probability of a prediction.
Verdict(p) == << p.predictedWinnerId, p.winProbability >>

\* C29: in the fallback vote a slight_playerN record counts like a playerN
\* record and a 'none' record counts for nobody; with equal counts (the empty
\* list among them) the fallback predicts player 2 with probability 0.5.
C29_SlightCountsNoneDoesNot ==
  FallbackTaken =>
    LET list == fn.analysisResults
        one == Favoring(list, {"player1"}) + Favoring(list, {"slight_player1"})
        two == Favoring(list, {"player2"}) + Favoring(list, {"slight_player2"})
    IN  /\ Verdict(fn.prediction)
             = Verdict(FallbackPrediction("p1", "p2", CompileFactors(Unslight(list))))
        /\ Verdict(fn.prediction)
             = Verdict(FallbackPrediction("p1", "p2", CompileFactors(WithoutNone(list))))
        /\ one = two => Verdict(fn.prediction) = << "p2", 500 >>
        /\ one > two => fn.prediction.predictedWinnerId = "p1"

C29_Witness ==
  /\ FallbackTaken
  /\ fn.analysisResults = << FactorResult("slight_player1"), FactorResult("none"),
                             FactorResult("player2") >>
  /\ Verdict(fn.prediction) = << "p2", 500 >>

\* C23: the factor list of the returned prediction has, for every task that
\* returned a record, an entry with exactly the advantage and the confidence
\* of that record, the confidence 0.0 of an error record included.
C23_FactorsAsReturned ==
  (fn.kind = "synth" /\ fn.done) =>
    LET returned == SelectSeq(fn.analysisResults, LAMBDA r : ~r.threw)
        factors == fn.prediction.factorAnalysis
    IN  /\ Len(factors) = Len(returned)
        /\ \A i \in 1..Len(returned) :
             /\ factors[i].advantage = returned[i].advantage
             /\ factors[i].confidence = returned[i].confidence

\* C28: the step in which the guard rejects a call changes no in-flight
\* marker, no AgentStatus entry and no table, and the run that holds the
\* match id is still in flight after it; a match id leaves the marker only
\* in a step in which the run that set it ends.
C28_RejectedChangesNothing ==
  [][ /\ \A c \in Slots :
           (run[c].state # "rejected" /\ run'[c].state = "rejected") =>
             /\ currentAnalysis' = currentAnalysis
             /\ call[c].matchId \in currentAnalysis'
             /\ agents' = agents
             /\ predictions' = predictions
             /\ agentRows' = agentRows
             /\ run'[c].statusUpdates = 0 /\ run'[c].rows = 0
             /\ \E d \in Slots \ {c} :
                  /\ run'[d] = run[d] /\ run[d].state = "running"
                  /\ call[d].matchId = call[c].matchId
      /\ \A m \in currentAnalysis \ currentAnalysis' :
           \E c \in Slots :
             /\ run[c].state = "running" /\ call[c].matchId = m
             /\ run'[c].state \in {"failed", "returned"} ]_vars

C28_Witness ==
  \E c, d \in Slots :
    /\ c # d
    /\ run[c].state = "rejected" /\ pc[c] = "done"
    /\ call[c].matchId = call[d].matchId
    /\ run[d].state = "running" /\ pending[d] # {}
    /\ call[d].matchId \in currentAnalysis
    /\ agentRows = << >>

\* C22: as long as a task function a run started has not returned, the run
\* stays where it is: it is in flight at the same stage with the same
\* results, it has not answered, its match id stays in the in-flight marker,
\* and every call for the same match id that reaches the guard meanwhile is
\* rejected with 'Match analysis already in progress'.
C22_HangingTaskStallsRun ==
  [][ \A c \in Slots : \A t \in pending[c] :
        /\ run[c].state = "running" /\ pc[c] = "tasks"
        /\ t \in pending'[c] =>
             /\ run'[c].state = "running" /\ pc'[c] = "tasks"
             /\ stage'[c] = stage[c] /\ results'[c] = results[c]
             /\ response'[c] = NoResponse
             /\ call'[c] = call[c]
             /\ call[c].matchId \in currentAnalysis'
             /\ \A d \in Slots \ {c} :
                  ( /\ call'[d].matchId = call[c].matchId
                    /\ run[d].state = "none" /\ run'[d].state # "none" ) =>
                       /\ run'[d].state = "rejected"
                       /\ run'[d].error = "Match analysis already in progress"
                       /\ response'[d].status = 500 ]_vars

C22_Witness ==
  \E c, d \in Slots :
    /\ c # d
    /\ run[c].state = "running"
    /\ stage[c] = 3 /\ pending[c] = {"Statistical Trend Analyst"}
    /\ call[d].matchId = call[c].matchId
    /\ run[d].state = "rejected" /\ response[d].status = 500

\* The run of slot c is over: it returned or threw.
RunEnded(c) == run[c].state \in {"failed", "returned", "rejected"}

\* C27: a run that is over has no task function in flight, and no
\* updateAgentStatus call is made for it any more: an AgentStatus entry
\* changes only in a step of a run that is in flight before the step; two runs
\* for the same match id never have tasks in flight together.
C27_NoTaskOutlivesRun ==
  [][ /\ \A c \in Slots :
           RunEnded(c) =>
             /\ pending[c] = {}
             /\ call[c].matchId \notin currentAnalysis
                  \/ \E d \in Slots \ {c} :
                       run[d].state = "running" /\ call[d].matchId = call[c].matchId
             /\ run'[c].state = run[c].state =>
                  run'[c].statusUpdates = run[c].statusUpdates
      /\ agents' # agents =>
           \E c \in Slots :
             /\ run[c].state = "running"
             /\ run'[c].statusUpdates > run[c].statusUpdates
      /\ \A c, d \in Slots :
           (c # d /\ call[c].matchId = call[d].matchId) =>
             pending[c] = {} \/ pending[d] = {} ]_vars

C27_Witness ==
  \E c, d \in Slots :
    /\ c # d
    /\ run[c].state = "failed" /\ run[c].error = "task" /\ pending[c] = {}
    /\ run[c].statusUpdates > 0
    /\ call[d].matchId = call[c].matchId
    /\ run[d].state = "running" /\ pending[d] # {}

\* How often task t is in the sequence of invocations q.
Invocations(q, t) == Cardinality({ i \in 1..Len(q) : q[i] = t })

\* The task functions slot c invokes in a step.
NewInvocations(c) ==
  IF Len(run'[c].started) > Len(run[c].started)
    THEN Range(SubSeq(run'[c].started, Len(run[c].started) + 1, Len(run'[c].started)))
    ELSE {}

\* C25: a run invokes each task function at most once, also when the
\* invocation failed; the totalAnalyses counter of a registered agent never
\* decreases, grows by one in a step exactly when its task is invoked in that
\* step, and never exceeds the number of runs.
C25_NothingRetried ==
  [][ IF \A c \in Slots : run'[c].started = run[c].started
        THEN agents' = agents
               \/ \A n \in AgentNames : agents'[n].totalAnalyses = agents[n].totalAnalyses
        ELSE LET invoked == UNION { NewInvocations(c) : c \in Slots }
             IN  /\ \A c \in Slots :
                      Len(run'[c].started) = Cardinality(Range(run'[c].started))
                 /\ \A n \in AgentNames :
                      /\ agents'[n].totalAnalyses
                           = agents[n].totalAnalyses + (IF n \in invoked THEN 1 ELSE 0)
                      /\ agents'[n].totalAnalyses <= reqCount' ]_vars

C25_Witness ==
  /\ agents["News Monitor"].totalAnalyses = 2
  /\ agents["News Monitor"].status = "error"
  /\ \A c \in Slots :
       /\ run[c].state = "failed" /\ run[c].threw
       /\ Invocations(run[c].started, "News Monitor") = 1

\* C21: when every external call returns or fails in the end, every run that
\* set the in-flight marker ends, returned or thrown, and its match id is
\* then no longer in the marker, so that a later call for it is accepted.
C21_RunEndsAndClears ==
  \A c \in Slots :
    (run[c].state = "running") ~>
      ( /\ run[c].state \in {"failed", "returned"}
        /\ call[c].matchId \notin currentAnalysis )

C21_Witness ==
  \E c, d \in Slots :
    /\ c # d
    /\ run[c].state = "failed" /\ run[c].error = "Player data not found"
    /\ call[d].matchId = call[c].matchId
    /\ run[d].state = "running" /\ ~run[d].guardSaw
    /\ call[d].id > call[c].id

\* Some request for match m broadcast on channel.
Announced(m, channel) ==
  \E c \in Slots : call[c].matchId = m /\ channel \in Range(trace[c])

\* C26: when every external call returns or fails in the end, an
\* 'analysis:started' broadcast for a match id is followed by an
\* 'analysis:completed' broadcast for that match id.
C26_StartedThenCompleted ==
  \A m \in LiveMatchInputs :
    Announced(m, "analysis:started") ~> Announced(m, "analysis:completed")


\* C30: after disconnect() the hook opens no new connection unless connect()
\* is called again explicitly, and it reconnects automatically at most
\* reconnectAttempts times between two successful opens.
C30_NoReconnectAfterDisconnect ==
  \A k \in 1..Len(hook.sockets) :
    hook.sockets[k].by = "timer" => ~hook.sockets[k].afterDisconnect

C30_AtMostReconnectAttempts == hook.sinceOpen <= reconnectAttempts

C30_DisconnectStopsReconnecting ==
  C30_NoReconnectAfterDisconnect /\ C30_AtMostReconnectAttempts

====
